---- MODULE Spec2Model ----
(***************************************************************************)
(* The two MNIST notebooks of the repository as one state machine:        *)
(*   "cnn"  : versions/2020/cnn/code/cnn-mnist.ipynb (Sequential CNN)      *)
(*   "ynet" : the Y-Network notebook (functional API, two branches)        *)
(* A behaviour is one top-to-bottom run of one notebook.  Every framework  *)
(* call is a step; any of them may raise.                                  *)
(***************************************************************************)
EXTENDS Integers, Sequences, FiniteSets, TLC

(* ---------------- bounds of the model ---------------- *)
\* number of training / test samples the loader returns (MNIST: 60000 / 10000)
NumTrain == 130
NumTest == 129
\* fit() shuffles the training rows each epoch; the model draws the
\* permutation among the rotations by 0..MaxRot positions
MaxRot == 1

(* ---------------- program constants ---------------- *)
batch_size == 128
kernel_size == 3
filters == 64
depth == 3
epochs == 20
\* height = width of an MNIST image, number of distinct MNIST digits
MnistImageSize == 28
MnistClasses == 10

Notebooks == {"cnn", "ynet"}

(* ---------------- numpy / dataset helpers ---------------- *)
\* an ndarray: its shape and its rows (one entry per sample)
Array(shape, dtype, rows) == [shape |-> shape, dtype |-> dtype, rows |-> rows]

NoArray == Array(<<>>, "", <<>>)

\* mnist.load_data(): images are tokens <<split, index>>, labels are digits
mnist_load_data ==
  [x_train |-> Array(<<NumTrain, MnistImageSize, MnistImageSize>>, "uint8",
                     [n \in 1..NumTrain |-> <<"train", n>>]),
   y_train |-> Array(<<NumTrain>>, "uint8",
                     [n \in 1..NumTrain |-> (n - 1) % MnistClasses]),
   x_test  |-> Array(<<NumTest, MnistImageSize, MnistImageSize>>, "uint8",
                     [n \in 1..NumTest |-> <<"test", n>>]),
   y_test  |-> Array(<<NumTest>>, "uint8",
                     [n \in 1..NumTest |-> (n * 7) % MnistClasses])]

\* len(np.unique(a))
np_unique_len(a) == Cardinality({a.rows[n] : n \in 1..Len(a.rows)})

SetMax(S) == CHOOSE m \in S : \A e \in S : e <= m

\* to_categorical(a): one-hot rows of length max(a) + 1
to_categorical(a) ==
  LET classes == SetMax({a.rows[n] : n \in 1..Len(a.rows)}) + 1
  IN Array(<<a.shape[1], classes>>, "float32",
           [n \in 1..Len(a.rows) |->
              [c \in 1..classes |-> IF c - 1 = a.rows[n] THEN 1 ELSE 0]])

\* np.reshape(a, [-1, s, s, 1]): the -1 axis takes what is left of the size
Product(shape) == IF Len(shape) = 0 THEN 1
                  ELSE IF Len(shape) = 1 THEN shape[1]
                  ELSE IF Len(shape) = 2 THEN shape[1] * shape[2]
                  ELSE IF Len(shape) = 3 THEN shape[1] * shape[2] * shape[3]
                  ELSE shape[1] * shape[2] * shape[3] * shape[4]

np_reshape(a, s) ==
  Array(<<Product(a.shape) \div (s * s), s, s, 1>>, a.dtype, a.rows)

\* a.astype('float32') / 255
astype_float32_div255(a) == Array(a.shape, "float32", a.rows)

\* first notebook cell: load, one-hot labels, reshape and normalise images
NoData == [x_train |-> NoArray, y_train |-> NoArray,
           x_test |-> NoArray, y_test |-> NoArray,
           num_labels |-> 0, image_size |-> 0, input_shape |-> <<>>]

Preprocess(raw) ==
  LET image_size == raw.x_train.shape[2]
  IN [x_train |-> astype_float32_div255(np_reshape(raw.x_train, image_size)),
      y_train |-> to_categorical(raw.y_train),
      x_test  |-> astype_float32_div255(np_reshape(raw.x_test, image_size)),
      y_test  |-> to_categorical(raw.y_test),
      num_labels |-> np_unique_len(raw.y_train),
      image_size |-> image_size,
      input_shape |-> <<image_size, image_size, 1>>]

(* ---------------- layers ---------------- *)
\* one layer configuration; fields a layer type does not have are 0 / ""
LayerCfg(type, f, k, pad, act, dil, pool, units) ==
  [type |-> type, filters |-> f, kernel_size |-> k, padding |-> pad,
   activation |-> act, dilation_rate |-> dil, pool_size |-> pool,
   units |-> units]

\* Keras defaults: strides 1, dilation_rate 1 for Conv2D
Conv2D(f, k, pad, act, dil) == LayerCfg("Conv2D", f, k, pad, act, dil, 0, 0)
\* Keras defaults: pool_size 2, strides = pool_size, padding 'valid'
MaxPooling2D == LayerCfg("MaxPooling2D", 0, 0, "valid", "", 0, 2, 0)
Flatten == LayerCfg("Flatten", 0, 0, "", "", 0, 0, 0)
Dense(units, act) == LayerCfg("Dense", 0, 0, "", act, 0, 0, units)
Activation(act) == LayerCfg("Activation", 0, 0, "", act, 0, 0, 0)
Concatenate == LayerCfg("Concatenate", 0, 0, "", "", 0, 0, 0)

\* length of one spatial axis after a convolution / pooling window
conv_output_length(input_length, filter_size, padding, stride, dilation) ==
  LET dilated == filter_size + (filter_size - 1) * (dilation - 1)
      full == IF padding = "same" THEN input_length
              ELSE input_length - dilated + 1
  IN (full + stride - 1) \div stride

\* output shape of a layer applied to one input of shape in
OutputShape(cfg, in) ==
  CASE cfg.type = "Conv2D" ->
         <<conv_output_length(in[1], cfg.kernel_size, cfg.padding, 1,
                              cfg.dilation_rate),
           conv_output_length(in[2], cfg.kernel_size, cfg.padding, 1,
                              cfg.dilation_rate),
           cfg.filters>>
    [] cfg.type = "MaxPooling2D" ->
         <<conv_output_length(in[1], cfg.pool_size, cfg.padding,
                              cfg.pool_size, 1),
           conv_output_length(in[2], cfg.pool_size, cfg.padding,
                              cfg.pool_size, 1),
           in[3]>>
    [] cfg.type = "Flatten" -> <<Product(in)>>
    [] cfg.type = "Dense" -> <<cfg.units>>
    [] OTHER -> in

\* number of trainable weights of a layer applied to an input of shape in
ParamCount(cfg, in) ==
  CASE cfg.type = "Conv2D" ->
         cfg.kernel_size * cfg.kernel_size * in[3] * cfg.filters + cfg.filters
    [] cfg.type = "Dense" -> in[1] * cfg.units + cfg.units
    [] OTHER -> 0

\* a layer of the graph: configuration, branch, input and output shape
Layer(cfg, branch, in) ==
  [cfg |-> cfg, branch |-> branch, in |-> in, out |-> OutputShape(cfg, in),
   params |-> ParamCount(cfg, in)]

\* concatenate([a, b]) joins along the last axis; all other axes must agree
CanConcatenate(a, b) ==
  /\ Len(a) = Len(b)
  /\ \A d \in 1..(Len(a) - 1) : a[d] = b[d]

\* variant: the branches are merged with add() instead of concatenate()
AddShape(a, b) == a

ConcatShape(a, b) == [d \in 1..Len(a) |-> IF d = Len(a) THEN a[d] + b[d] ELSE a[d]]

ConcatLayer(a, b) ==
  [cfg |-> Concatenate, branch |-> "head", in |-> a, out |-> ConcatShape(a, b),
   params |-> 0]

(* ---------------- the two programs ---------------- *)
\* variant: padding left at the Keras default ('valid') in the Conv2D calls
CnnLayerSpecsValid(num_labels) ==
  << Conv2D(filters, kernel_size, "valid", "relu", 1),
     MaxPooling2D,
     Conv2D(filters, kernel_size, "valid", "relu", 1),
     MaxPooling2D,
     Conv2D(filters, kernel_size, "valid", "relu", 1),
     Flatten,
     Dense(num_labels, "linear"),
     Activation("softmax") >>

\* cnn-mnist.ipynb: the eight model.add(...) calls, in order
CnnLayerSpecs(num_labels) ==
  << Conv2D(filters, kernel_size, "same", "relu", 1),
     MaxPooling2D,
     Conv2D(filters, kernel_size, "same", "relu", 1),
     MaxPooling2D,
     Conv2D(filters, kernel_size, "same", "relu", 1),
     Flatten,
     Dense(num_labels, "linear"),
     Activation("softmax") >>

\* variants: a left branch with a 5x5 kernel, a right branch without padding
YLeftConvWide == Conv2D(filters, 5, "same", "relu", 1)

YRightConvValid == Conv2D(filters, kernel_size, "valid", "relu", 2)

\* Y-Network: the Conv2D of the left loop and of the right loop
YLeftConv == Conv2D(filters, kernel_size, "same", "relu", 1)

YRightConv == Conv2D(filters, kernel_size, "same", "relu", 2)

YBranchConv(b) == IF b = "left" THEN YLeftConv ELSE YRightConv

\* Y-Network head: Dense(num_labels, activation='softmax')
YHeadDense(num_labels) == Dense(num_labels, "softmax")

\* model.compile(...) arguments
CnnCompileArgs ==
  [loss |-> "categorical_crossentropy", optimizer |-> "sgd",
   metrics |-> <<"accuracy">>]

YCompileArgs ==
  [loss |-> "categorical_crossentropy", optimizer |-> "sgd",
   metrics |-> <<"accuracy">>]

CompileArgs(n) == IF n = "cnn" THEN CnnCompileArgs ELSE YCompileArgs

NotCompiled == [loss |-> "", optimizer |-> "", metrics |-> <<>>]

\* model.fit(...) arguments; x is the list of input arrays, by name
NoValidation == [x |-> <<>>, y |-> ""]

CnnFitArgs ==
  [x |-> <<"x_train">>, y |-> "y_train", validation_data |-> NoValidation,
   epochs |-> epochs, batch_size |-> batch_size]

\* variant: the validation inputs mix the test and the training images
YFitArgsMixed ==
  [x |-> <<"x_train", "x_train">>, y |-> "y_train",
   validation_data |-> [x |-> <<"x_test", "x_train">>, y |-> "y_test"],
   epochs |-> epochs, batch_size |-> batch_size]

YFitArgs ==
  [x |-> <<"x_train", "x_train">>, y |-> "y_train",
   validation_data |-> [x |-> <<"x_test", "x_test">>, y |-> "y_test"],
   epochs |-> epochs, batch_size |-> batch_size]

FitArgs(n) == IF n = "cnn" THEN CnnFitArgs ELSE YFitArgs

\* model.evaluate(...) arguments
CnnEvaluateArgs == [x |-> <<"x_test">>, y |-> "y_test", batch_size |-> batch_size]

YEvaluateArgs ==
  [x |-> <<"x_test", "x_test">>, y |-> "y_test", batch_size |-> batch_size]

EvaluateArgs(n) == IF n = "cnn" THEN CnnEvaluateArgs ELSE YEvaluateArgs

\* a variable of the notebook, by name
Var(d, name) ==
  CASE name = "x_train" -> d.x_train
    [] name = "y_train" -> d.y_train
    [] name = "x_test" -> d.x_test
    [] name = "y_test" -> d.y_test

(* ---------------- batching inside fit / evaluate ---------------- *)
\* number of batches that cover n rows
Steps(n, bs) == (n + bs - 1) \div bs

\* row drawn at position p of an epoch whose shuffle is the rotation by rot
Shuffled(p, rot, n) == ((p - 1 + rot) % n) + 1

\* row indices of batch number s (1-based)
BatchIdx(s, bs, rot, n) ==
  LET first == (s - 1) * bs + 1
      last == IF s * bs < n THEN s * bs ELSE n
  IN [k \in 1..(last - first + 1) |-> Shuffled(first + k - 1, rot, n)]

Take(a, idx) == [k \in 1..Len(idx) |-> a.rows[idx[k]]]

\* what one train/test step hands to the model: one batch per model input
\* and the batch of targets, all taken at the same row indices
Feed(d, xs, yname, src, idx) ==
  [src |-> src, idx |-> idx,
   inputs |-> [j \in 1..Len(xs) |-> Take(Var(d, xs[j]), idx)],
   target |-> Take(Var(d, yname), idx)]

NoFeed == [src |-> "", idx |-> <<>>, inputs |-> <<>>, target |-> <<>>]

\* "%.1f%%" % (100.0 * acc), acc given in thousandths
FormatAccuracy(acc) ==
  [text |-> "Test accuracy", value |-> <<acc \div 10, acc % 10>>]

\* accuracies evaluate() may return, in thousandths
AccValues == {0, 985, 1000}

NoScore == <<>>

(* ---------------- statements, in program order ---------------- *)
CnnProgram ==
  <<"load_data", "Sequential", "add", "summary",
    "compile", "fit", "evaluate", "print">>

YProgram ==
  <<"load_data", "Input_left", "loop_left", "Input_right", "loop_right",
    "concatenate", "Flatten", "Dense", "Model", "summary",
    "compile", "fit", "evaluate", "print">>

\* variant: model.fit(...) written before model.compile(...)
ProgramFitFirst(n) ==
  IF n = "cnn"
    THEN <<"load_data", "Sequential", "add", "summary",
           "fit", "compile", "evaluate", "print">>
    ELSE <<"load_data", "Input_left", "loop_left", "Input_right", "loop_right",
           "concatenate", "Flatten", "Dense", "Model", "summary",
           "fit", "compile", "evaluate", "print">>

Program(n) == IF n = "cnn" THEN CnnProgram ELSE YProgram

(* ---------------- state ---------------- *)
VARIABLES
  nb,            \* which notebook runs
  ip,            \* index of the current statement in Program(nb)
  sub,           \* position inside a loop / fit / evaluate
  exc,           \* name of the call whose exception ended the run, or ""
  log,           \* history of framework calls: call / return / raise events
  ds,            \* x_train, y_train, x_test, y_test, num_labels, ...
  left_inputs, right_inputs,   \* Input tensors of the Y-Network (shapes)
  x, y,          \* running output tensors of the left / right branch (shapes)
  i,             \* loop variable of the branch loops
  layers,        \* layers created so far, in creation order
  outputs,       \* output tensor of the classifier head (shape)
  model,         \* the model object
  compiled,      \* arguments of compile(), or NotCompiled
  epoch, step,   \* progress of fit / evaluate
  rot,           \* shuffle of the current epoch
  feed,          \* batch handed to the model by the last train/test step
  score,         \* result of evaluate(): <<loss, accuracy>>
  stdout         \* printed lines

vars == <<nb, ip, sub, exc, log, ds, left_inputs, right_inputs, x, y, i,
          layers, outputs, model, compiled, epoch, step, rot, feed, score,
          stdout>>

graphVars == <<left_inputs, right_inputs, x, y, i, layers, outputs, model>>
trainVars == <<compiled, epoch, step, rot, feed, score>>

NoModel == [name |-> "", inputs |-> <<>>, outputs |-> <<>>]

Call(fn) == [ev |-> "call", fn |-> fn]
Return(fn) == [ev |-> "return", fn |-> fn]
Raised(fn) == [ev |-> "raise", fn |-> fn]

Done == ip > Len(Program(nb))
Stmt == IF Done THEN "" ELSE Program(nb)[ip]
At(s) == exc = "" /\ ~Done /\ Stmt = s

Init ==
  /\ nb \in Notebooks
  /\ ip = 1 /\ sub = "" /\ exc = "" /\ log = <<>>
  /\ ds = NoData
  /\ left_inputs = <<>> /\ right_inputs = <<>> /\ x = <<>> /\ y = <<>>
  /\ i = 0 /\ layers = <<>> /\ outputs = <<>> /\ model = NoModel
  /\ compiled = NotCompiled /\ epoch = 0 /\ step = 0 /\ rot = 0
  /\ feed = NoFeed /\ score = NoScore /\ stdout = <<>>

\* a call that runs to completion within one step
Atomic(fn) == log' = log \o <<Call(fn), Return(fn)>>

Advance == ip' = ip + 1 /\ sub' = ""

(* ---------------- cell 1: data ---------------- *)
LoadData ==
  /\ At("load_data")
  /\ ds' = Preprocess(mnist_load_data)
  /\ Atomic("load_data") /\ Advance
  /\ UNCHANGED <<nb, exc, graphVars, trainVars, stdout>>

(* ---------------- cnn: Sequential model building ---------------- *)
Sequential ==
  /\ At("Sequential")
  /\ model' = [name |-> "sequential", inputs |-> <<>>, outputs |-> <<>>]
  /\ Atomic("Sequential") /\ Advance
  /\ UNCHANGED <<nb, exc, ds, left_inputs, right_inputs, x, y, i, layers,
                 outputs, trainVars, stdout>>

\* the next model.add(...)
Add ==
  /\ At("add")
  /\ LET specs == CnnLayerSpecs(ds.num_labels)
         k == Len(layers) + 1
         in == IF k = 1 THEN ds.input_shape ELSE layers[k - 1].out
         l == Layer(specs[k], "main", in)
     IN /\ layers' = Append(layers, l)
        /\ model' = [model EXCEPT !.inputs = <<ds.input_shape>>,
                                  !.outputs = l.out]
        /\ outputs' = l.out
        /\ Atomic(specs[k].type)
        /\ IF k = Len(specs) THEN Advance ELSE UNCHANGED <<ip, sub>>
  /\ UNCHANGED <<nb, exc, ds, left_inputs, right_inputs, x, y, i,
                 trainVars, stdout>>

(* ---------------- ynet: the two branches ---------------- *)
Branches == {"left", "right"}

\* left_inputs = Input(shape=input_shape); x = left_inputs   (right: y)
InputLayer(b) ==
  /\ At("Input_" \o b)
  /\ IF b = "left"
       THEN /\ left_inputs' = ds.input_shape
            /\ x' = ds.input_shape
            /\ UNCHANGED <<right_inputs, y, i>>
       ELSE /\ right_inputs' = ds.input_shape
            /\ y' = ds.input_shape
            /\ UNCHANGED <<left_inputs, x, i>>
  /\ Atomic("Input") /\ Advance
  /\ UNCHANGED <<nb, exc, ds, layers, outputs, model, trainVars, stdout>>

\* for i in range(depth): entering the loop binds i to 0
LoopEnter(b) ==
  /\ At("loop_" \o b) /\ sub = ""
  /\ IF 0 < depth THEN i' = 0 /\ sub' = "conv" /\ UNCHANGED ip
                  ELSE Advance /\ UNCHANGED i
  /\ UNCHANGED <<nb, exc, log, ds, left_inputs, right_inputs, x, y, layers,
                 outputs, model, trainVars, stdout>>

\* end of one loop iteration: next value of i, or leave the loop
NextIteration ==
  IF i + 1 < depth THEN i' = i + 1 /\ sub' = "conv" /\ UNCHANGED ip
                   ELSE Advance /\ UNCHANGED i

\* x = Conv2D(...)(x)   (right: y)
BranchConv(b) ==
  /\ At("loop_" \o b) /\ sub = "conv"
  /\ LET l == Layer(YBranchConv(b), b, IF b = "left" THEN x ELSE y)
     IN /\ layers' = Append(layers, l)
        /\ IF b = "left" THEN x' = l.out /\ UNCHANGED y
                         ELSE y' = l.out /\ UNCHANGED x
  /\ Atomic("Conv2D")
  /\ IF i < depth - 1 THEN sub' = "pool" /\ UNCHANGED <<ip, i>>
                      ELSE NextIteration
  /\ UNCHANGED <<nb, exc, ds, left_inputs, right_inputs, outputs, model,
                 trainVars, stdout>>

\* if i < (depth - 1): x = MaxPooling2D()(x)   (right: y)
BranchPool(b) ==
  /\ At("loop_" \o b) /\ sub = "pool"
  /\ LET l == Layer(MaxPooling2D, b, IF b = "left" THEN x ELSE y)
     IN /\ layers' = Append(layers, l)
        /\ IF b = "left" THEN x' = l.out /\ UNCHANGED y
                         ELSE y' = l.out /\ UNCHANGED x
  /\ Atomic("MaxPooling2D")
  /\ NextIteration
  /\ UNCHANGED <<nb, exc, ds, left_inputs, right_inputs, outputs, model,
                 trainVars, stdout>>

(* ---------------- ynet: merge and head ---------------- *)
\* y = concatenate([x, y]); raises when the shapes do not line up
Merge ==
  /\ At("concatenate")
  /\ CanConcatenate(x, y)
  /\ LET l == ConcatLayer(x, y)
     IN layers' = Append(layers, l) /\ y' = l.out
  /\ Atomic("concatenate") /\ Advance
  /\ UNCHANGED <<nb, exc, ds, left_inputs, right_inputs, x, i, outputs, model,
                 trainVars, stdout>>

\* y = Flatten()(y)
FlattenHead ==
  /\ At("Flatten")
  /\ LET l == Layer(Flatten, "head", y)
     IN layers' = Append(layers, l) /\ y' = l.out
  /\ Atomic("Flatten") /\ Advance
  /\ UNCHANGED <<nb, exc, ds, left_inputs, right_inputs, x, i, outputs, model,
                 trainVars, stdout>>

\* outputs = Dense(num_labels, activation='softmax')(y)
DenseHead ==
  /\ At("Dense")
  /\ LET l == Layer(YHeadDense(ds.num_labels), "head", y)
     IN layers' = Append(layers, l) /\ outputs' = l.out
  /\ Atomic("Dense") /\ Advance
  /\ UNCHANGED <<nb, exc, ds, left_inputs, right_inputs, x, y, i, model,
                 trainVars, stdout>>

\* model = Model([left_inputs, right_inputs], outputs, name='Y_Network')
BuildModel ==
  /\ At("Model")
  /\ model' = [name |-> "Y_Network", inputs |-> <<left_inputs, right_inputs>>,
               outputs |-> outputs]
  /\ Atomic("Model") /\ Advance
  /\ UNCHANGED <<nb, exc, ds, left_inputs, right_inputs, x, y, i, layers,
                 outputs, trainVars, stdout>>

(* ---------------- both: summary ---------------- *)
RECURSIVE SumParams(_)
SumParams(ls) ==
  IF ls = <<>> THEN 0 ELSE ls[1].params + SumParams(Tail(ls))

\* model.summary(): prints the model's name and its total parameter count
Summary ==
  /\ At("summary")
  /\ stdout' = Append(stdout, [text |-> "Total params",
                               value |-> <<SumParams(layers)>>])
  /\ Atomic("summary") /\ Advance
  /\ UNCHANGED <<nb, exc, ds, graphVars, trainVars>>

(* ---------------- both: compile / fit / evaluate / print ---------------- *)
Compile ==
  /\ At("compile")
  /\ compiled' = CompileArgs(nb)
  /\ Atomic("compile") /\ Advance
  /\ UNCHANGED <<nb, exc, ds, graphVars, epoch, step, rot, feed, score, stdout>>

Rows(name) == Var(ds, name).shape[1]

\* fit() is entered: first epoch, fresh shuffle
FitBegin ==
  /\ At("fit") /\ sub = ""
  /\ epoch' = 1 /\ step' = 0 /\ sub' = "train"
  /\ rot' \in 0..MaxRot
  /\ log' = Append(log, Call("fit"))
  /\ UNCHANGED <<nb, ip, exc, ds, graphVars, compiled, feed, score, stdout>>

\* one training batch of the current epoch
FitTrainStep ==
  /\ At("fit") /\ sub = "train"
  /\ LET a == FitArgs(nb)
         n == Rows(a.y)
         s == step + 1
     IN /\ feed' = Feed(ds, a.x, a.y, "train", BatchIdx(s, a.batch_size, rot, n))
        /\ IF s < Steps(n, a.batch_size)
             THEN step' = s /\ UNCHANGED sub
             ELSE /\ step' = 0
                  /\ sub' = IF a.validation_data = NoValidation
                              THEN "epoch_end" ELSE "val"
  /\ UNCHANGED <<nb, ip, exc, log, ds, graphVars, compiled, epoch, rot, score,
                 stdout>>

\* one validation batch at the end of the epoch (rows in order, no shuffle)
FitValStep ==
  /\ At("fit") /\ sub = "val"
  /\ LET a == FitArgs(nb)
         v == a.validation_data
         n == Rows(v.y)
         s == step + 1
     IN /\ feed' = Feed(ds, v.x, v.y, "val", BatchIdx(s, a.batch_size, 0, n))
        /\ IF s < Steps(n, a.batch_size)
             THEN step' = s /\ UNCHANGED sub
             ELSE step' = 0 /\ sub' = "epoch_end"
  /\ UNCHANGED <<nb, ip, exc, log, ds, graphVars, compiled, epoch, rot, score,
                 stdout>>

\* next epoch, or fit() returns after the last one
FitEpochEnd ==
  /\ At("fit") /\ sub = "epoch_end"
  /\ IF epoch < FitArgs(nb).epochs
       THEN /\ epoch' = epoch + 1 /\ sub' = "train"
            /\ rot' \in 0..MaxRot
            /\ UNCHANGED <<ip, log>>
       ELSE /\ log' = Append(log, Return("fit"))
            /\ Advance
            /\ UNCHANGED <<epoch, rot>>
  /\ UNCHANGED <<nb, exc, ds, graphVars, compiled, step, feed, score, stdout>>

EvaluateBegin ==
  /\ At("evaluate") /\ sub = ""
  /\ step' = 0 /\ sub' = "test"
  /\ log' = Append(log, Call("evaluate"))
  /\ UNCHANGED <<nb, ip, exc, ds, graphVars, compiled, epoch, rot, feed, score,
                 stdout>>

\* one test batch; after the last one evaluate() returns [loss, accuracy]
EvaluateStep ==
  /\ At("evaluate") /\ sub = "test"
  /\ LET a == EvaluateArgs(nb)
         n == Rows(a.y)
         s == step + 1
     IN /\ feed' = Feed(ds, a.x, a.y, "test", BatchIdx(s, a.batch_size, 0, n))
        /\ IF s < Steps(n, a.batch_size)
             THEN step' = s /\ UNCHANGED <<ip, sub, log, score>>
             ELSE /\ step' = 0
                  /\ \E acc \in AccValues : score' = <<"loss", acc>>
                  /\ log' = Append(log, Return("evaluate"))
                  /\ Advance
  /\ UNCHANGED <<nb, exc, ds, graphVars, compiled, epoch, rot, stdout>>

\* print("\nTest accuracy: %.1f%%" % (100.0 * acc))
PrintAccuracy ==
  /\ At("print")
  /\ stdout' = Append(stdout, FormatAccuracy(score[2]))
  /\ Atomic("print") /\ Advance
  /\ UNCHANGED <<nb, exc, ds, graphVars, trainVars>>

(* ---------------- exceptions ---------------- *)
\* the framework call the run is in (or about to make)
CurrentCall ==
  CASE Stmt = "add" -> CnnLayerSpecs(ds.num_labels)[Len(layers) + 1].type
    [] Stmt \in {"Input_left", "Input_right"} -> "Input"
    [] Stmt \in {"loop_left", "loop_right"} ->
         IF sub = "pool" THEN "MaxPooling2D" ELSE "Conv2D"
    [] OTHER -> Stmt

\* fit / evaluate are entered and have not returned
InCall == sub \in {"train", "val", "epoch_end", "test"}

\* variant: the call sits in a try/except that swallows the exception
Swallowed(fn) ==
  /\ exc' = ""
  /\ ip' = ip + 1 /\ sub' = ""

\* nothing catches: the exception ends the run where it is
Unhandled(fn) ==
  /\ exc' = fn
  /\ UNCHANGED <<ip, sub>>

\* any framework call may raise
Raise ==
  /\ exc = "" /\ ~Done
  /\ ~(Stmt \in {"loop_left", "loop_right"} /\ sub = "")
  /\ log' = log \o (IF InCall THEN <<>> ELSE <<Call(CurrentCall)>>)
                \o <<Raised(CurrentCall)>>
  /\ Unhandled(CurrentCall)
  /\ UNCHANGED <<nb, ds, graphVars, trainVars, stdout>>

Next ==
  \/ LoadData
  \/ Sequential
  \/ Add
  \/ \E b \in Branches : InputLayer(b)
  \/ \E b \in Branches : LoopEnter(b)
  \/ \E b \in Branches : BranchConv(b)
  \/ \E b \in Branches : BranchPool(b)
  \/ Merge
  \/ FlattenHead
  \/ DenseHead
  \/ BuildModel
  \/ Summary
  \/ Compile
  \/ FitBegin
  \/ FitTrainStep
  \/ FitValStep
  \/ FitEpochEnd
  \/ EvaluateBegin
  \/ EvaluateStep
  \/ PrintAccuracy
  \/ Raise

Spec == Init /\ [][Next]_vars

(* ======================= properties ======================= *)
Has(e) == \E j \in 1..Len(log) : log[j] = e

Count(e) == Cardinality({j \in 1..Len(log) : log[j] = e})

\* every occurrence of e2 in the history is preceded by an occurrence of e1
Before(e1, e2) ==
  \A j \in 1..Len(log) : log[j] = e2 => \E k \in 1..(j - 1) : log[k] = e1

BuildCalls == {"Sequential", "Input", "Conv2D", "MaxPooling2D", "Flatten",
               "Dense", "Activation", "concatenate", "Model"}

PipelineCalls == {"load_data", "compile", "fit", "evaluate", "print"}

\* the model object exists and ends in the softmax classifier
GraphComplete ==
  /\ model.name # ""
  /\ Len(layers) > 0
  /\ layers[Len(layers)].cfg.activation = "softmax"
  /\ model.outputs = layers[Len(layers)].out

AccuracyLines == {j \in 1..Len(stdout) : stdout[j].text = "Test accuracy"}

\* C1: in a run of either notebook the steps load data, build graph, compile,
\* fit, evaluate, print happen at most once each and in this order: the graph
\* is built after the data is loaded, compile is called only on the complete
\* graph, fit only after compile returned, evaluate only after fit returned
\* with all its epochs run, the accuracy line is printed only after evaluate
\* returned; a run that reaches its end has made each step exactly once.
C1_PipelineOrder ==
  /\ \A fn \in PipelineCalls : Count(Call(fn)) <= 1 /\ Count(Return(fn)) <= 1
  /\ \A j \in 1..Len(log) :
        log[j].fn \in BuildCalls =>
          /\ \E k \in 1..(j - 1) : log[k] = Return("load_data")
          /\ \A k \in 1..j : log[k] # Call("compile")
  /\ Has(Call("compile")) => GraphComplete
  /\ Before(Return("compile"), Call("fit"))
  /\ Before(Return("fit"), Call("evaluate"))
  /\ Has(Return("fit")) => epoch = epochs
  /\ Has(Call("evaluate")) => epoch = epochs
  /\ Before(Return("evaluate"), Call("print"))
  /\ AccuracyLines # {} => Has(Return("evaluate")) /\ score # NoScore
  /\ Cardinality(AccuracyLines) <= 1
  /\ Done => /\ \A fn \in PipelineCalls : Count(Return(fn)) = 1
             /\ GraphComplete
             /\ Cardinality(AccuracyLines) = 1

\* a complete run: the accuracy line is on stdout
C1_Witness == Done /\ exc = "" /\ Cardinality(AccuracyLines) = 1

\* C7: no retry and no recovery: a raised exception is the last thing that
\* happens in the run (the failed call is not made again and no later call is
\* made), and the accuracy line is printed only if fit and evaluate returned
\* and nothing was raised.
C7_NoRecovery ==
  /\ \A j \in 1..Len(log) : log[j].ev = "raise" => j = Len(log) /\ exc = log[j].fn
  /\ exc # "" => Len(log) > 0 /\ log[Len(log)] = Raised(exc)
  /\ exc # "" => AccuracyLines = {}
  /\ AccuracyLines # {} => Has(Return("fit")) /\ Has(Return("evaluate"))

\* fit raised in the middle of training
C7_Witness == exc = "fit" /\ epoch = 2 /\ sub = "train" /\ AccuracyLines = {}

IsBranch(b, l) == l.branch = b

\* the layers of one branch, in creation order
BranchLayers(b) ==
  IF b = "left" THEN SelectSeq(layers, LAMBDA l : IsBranch("left", l))
  ELSE IF b = "right" THEN SelectSeq(layers, LAMBDA l : IsBranch("right", l))
  ELSE IF b = "head" THEN SelectSeq(layers, LAMBDA l : IsBranch("head", l))
  ELSE SelectSeq(layers, LAMBDA l : IsBranch("main", l))

Types(ls) == [j \in 1..Len(ls) |-> ls[j].cfg.type]
Outs(ls) == [j \in 1..Len(ls) |-> ls[j].out]

\* position of statement s in the running notebook's program
After(s) == \E j \in 1..Len(Program(nb)) : Program(nb)[j] = s /\ ip > j

\* C3: the single-branch CNN is Conv2D-ReLU-MaxPool, Conv2D-ReLU-MaxPool,
\* Conv2D-ReLU, Flatten, Dense(10), softmax, in this order; on the 28x28x1
\* input the output shapes are (28,28,64), (14,14,64), (14,14,64), (7,7,64),
\* (7,7,64), 3136, 10, 10; every 'same'-padded Conv2D keeps height and width
\* and yields 64 channels, every MaxPooling2D halves height and width,
\* Flatten yields height*width*channels.
C3_CnnStack ==
  nb = "cnn" =>
    /\ \A j \in 1..Len(layers) :
         LET l == layers[j] IN
           /\ l.cfg.type = "Conv2D" =>
                /\ l.cfg.padding = "same" /\ l.cfg.activation = "relu"
                /\ l.out = <<l.in[1], l.in[2], 64>>
           /\ l.cfg.type = "MaxPooling2D" =>
                l.out = <<l.in[1] \div 2, l.in[2] \div 2, l.in[3]>>
           /\ l.cfg.type = "Flatten" =>
                l.out = <<l.in[1] * l.in[2] * l.in[3]>>
    /\ Len(layers) > 0 => layers[1].in = <<28, 28, 1>>
    /\ After("add") =>
         /\ Types(layers) = <<"Conv2D", "MaxPooling2D", "Conv2D", "MaxPooling2D",
                              "Conv2D", "Flatten", "Dense", "Activation">>
         /\ Outs(layers) = << <<28, 28, 64>>, <<14, 14, 64>>, <<14, 14, 64>>,
                              <<7, 7, 64>>, <<7, 7, 64>>, <<3136>>, <<10>>,
                              <<10>> >>
         /\ layers[7].cfg.units = 10
         /\ layers[8].cfg.activation = "softmax"

\* the CNN has been built and summarised
C3_Witness == nb = "cnn" /\ exc = "" /\ Stmt = "compile" /\ Len(layers) = 8

\* C4: concatenate() of the two branch outputs keeps height and width and
\* doubles the channels: (7,7,64) and (7,7,64) give (7,7,128), Flatten then
\* gives 6272 features and the Dense head 10 = num_labels values; a merged
\* graph exists only with branch outputs of equal height and width.
C4_Merge ==
  nb = "ynet" =>
    LET L == BranchLayers("left")
        R == BranchLayers("right")
        H == BranchLayers("head")
    IN /\ Len(H) >= 1 =>
            LET lo == L[Len(L)].out
                ro == R[Len(R)].out
            IN /\ H[1].cfg.type = "Concatenate"
               /\ lo = <<7, 7, 64>> /\ ro = <<7, 7, 64>>
               /\ lo[1] = ro[1] /\ lo[2] = ro[2]
               /\ H[1].out = <<lo[1], lo[2], 2 * lo[3]>>
               /\ H[1].out = <<7, 7, 128>>
       /\ Len(H) >= 2 => H[2].cfg.type = "Flatten" /\ H[2].out = <<6272>>
       /\ Len(H) >= 3 =>
            /\ H[3].cfg.type = "Dense" /\ H[3].out = <<10>>
            /\ ds.num_labels = 10 /\ outputs = <<ds.num_labels>>

\* the Y-Network model object has been created over the merged head
C4_Witness ==
  nb = "ynet" /\ model.name = "Y_Network" /\ Len(BranchLayers("head")) = 3

\* C5: every batch handed to the Y-Network (training, validation, evaluate)
\* holds the same images for the left and the right input, taken from the
\* same array (x_train with x_train, x_test with x_test) at the same row
\* indices as the labels.
C5_SameInput ==
  (nb = "ynet" /\ feed # NoFeed) =>
    LET split == IF feed.src = "train" THEN "train" ELSE "test"
        labels == IF feed.src = "train" THEN ds.y_train ELSE ds.y_test
    IN /\ Len(feed.inputs) = 2
       /\ feed.inputs[1] = feed.inputs[2]
       /\ Len(feed.idx) > 0
       /\ Len(feed.target) = Len(feed.idx)
       /\ \A j \in 1..2 : Len(feed.inputs[j]) = Len(feed.idx)
       /\ \A k \in 1..Len(feed.idx) :
            /\ feed.inputs[1][k] = <<split, feed.idx[k]>>
            /\ feed.inputs[2][k] = <<split, feed.idx[k]>>
            /\ feed.target[k] = labels.rows[feed.idx[k]]

\* the last, partial validation batch of an epoch has been fed
C5_Witness ==
  nb = "ynet" /\ feed.src = "val" /\ Len(feed.idx) < batch_size /\ epoch = 3

\* C6: the right branch mirrors the left one except for dilation_rate = 2:
\* same layer types in the same order, and after every layer the same output
\* shape and the same number of weights as the left branch; the shapes are
\* 28x28x64, 14x14x64, 14x14x64, 7x7x64, 7x7x64.
C6_Mirror ==
  nb = "ynet" =>
    LET L == BranchLayers("left")
        R == BranchLayers("right")
    IN /\ Len(R) <= Len(L)
       /\ \A j \in 1..Len(R) :
            /\ R[j].cfg.type = L[j].cfg.type
            /\ R[j].out = L[j].out
            /\ R[j].params = L[j].params
            /\ R[j].cfg.type = "Conv2D" =>
                 /\ L[j].cfg.dilation_rate = 1
                 /\ R[j].cfg = [L[j].cfg EXCEPT !.dilation_rate = 2]
            /\ R[j].cfg.type # "Conv2D" => R[j].cfg = L[j].cfg
       /\ After("loop_left") =>
            Outs(L) = << <<28, 28, 64>>, <<14, 14, 64>>, <<14, 14, 64>>,
                         <<7, 7, 64>>, <<7, 7, 64>> >>
       /\ After("loop_right") =>
            /\ Types(R) = <<"Conv2D", "MaxPooling2D", "Conv2D", "MaxPooling2D",
                            "Conv2D">>
            /\ Outs(R) = << <<28, 28, 64>>, <<14, 14, 64>>, <<14, 14, 64>>,
                            <<7, 7, 64>>, <<7, 7, 64>> >>

\* both loops have run, the branches are about to be merged
C6_Witness ==
  nb = "ynet" /\ exc = "" /\ Stmt = "concatenate"
  /\ Len(BranchLayers("right")) = 5

\* the hyper-parameters the notebooks set on a layer, without the dilation
Hyper(cfg) == [cfg EXCEPT !.dilation_rate = 0]

\* the classifier a layer stack ends in: <<units of the last Dense, output
\* activation>>, whether softmax is part of Dense or a layer of its own
Classifier(ls) ==
  LET dense == {j \in 1..Len(ls) : ls[j].cfg.type = "Dense"}
  IN IF dense = {} THEN <<>>
     ELSE <<ls[SetMax(dense)].cfg.units, ls[Len(ls)].cfg.activation>>

\* what both statements of C2 share: the left branch equals the CNN's
\* convolutional stack layer by layer, the classifier is the same
\* Dense(num_labels)+softmax, and compile / fit / evaluate agree on loss,
\* optimizer, metrics, epochs and batch_size
C2_Common ==
  LET cnn == CnnLayerSpecs(ds.num_labels)
      L == BranchLayers("left")
      R == BranchLayers("right")
  IN /\ Len(L) <= 5 /\ Len(R) <= 5
     /\ \A j \in 1..Len(L) : L[j].cfg = cnn[j]
     /\ \A j \in 1..Len(R) : Hyper(R[j].cfg) = Hyper(cnn[j])
     /\ After("Dense") =>
          Classifier(layers) = <<cnn[7].units, cnn[8].activation>>
     /\ Has(Return("compile")) => compiled = CnnCompileArgs
     /\ Has(Call("fit")) =>
          /\ FitArgs(nb).epochs = CnnFitArgs.epochs
          /\ FitArgs(nb).batch_size = CnnFitArgs.batch_size
          /\ FitArgs(nb).y = CnnFitArgs.y
     /\ Has(Call("evaluate")) =>
          /\ EvaluateArgs(nb).batch_size = CnnEvaluateArgs.batch_size
          /\ EvaluateArgs(nb).y = CnnEvaluateArgs.y

\* C2 (as stated): apart from the branches and the merge, every layer of
\* every Y-Network branch has the hyper-parameters of the corresponding CNN
\* layer, dilation included, and fit takes the same validation data as the
\* CNN's fit (which takes none, so no validation batch is ever fed).
C2_AsStated ==
  nb = "ynet" =>
    /\ C2_Common
    /\ \A j \in 1..Len(BranchLayers("right")) :
         BranchLayers("right")[j].cfg = CnnLayerSpecs(ds.num_labels)[j]
    /\ Has(Call("fit")) =>
         FitArgs(nb).validation_data = CnnFitArgs.validation_data
    /\ feed.src # "val"

\* C2 (amended): as stated, except that the Conv2D layers of the right
\* branch have dilation_rate = 2 where the CNN (and the left branch) have 1,
\* and that the Y-Network's fit validates on the test set ([x_test, x_test],
\* y_test) while the CNN's fit has no validation data.
C2_Amended ==
  nb = "ynet" =>
    /\ C2_Common
    /\ \A j \in 1..Len(BranchLayers("right")) :
         LET r == BranchLayers("right")[j].cfg
             c == CnnLayerSpecs(ds.num_labels)[j]
         IN IF r.type = "Conv2D"
              THEN r.dilation_rate = 2 /\ c.dilation_rate = 1
              ELSE r = c
    /\ CnnFitArgs.validation_data = NoValidation
    /\ Has(Call("fit")) =>
         FitArgs(nb).validation_data = [x |-> <<"x_test", "x_test">>, y |-> "y_test"]
    /\ feed.src = "val" => \A k \in 1..Len(feed.idx) :
                             feed.inputs[1][k] = <<"test", feed.idx[k]>>

\* the Y-Network has been built, compiled, trained with validation, evaluated
C2_Witness ==
  nb = "ynet" /\ exc = "" /\ Stmt = "print" /\ feed.src = "test"
  /\ Len(BranchLayers("right")) = 5

(* ---------------- agreement with the recorded notebook output ------------- *)
\* parameter totals and step counts printed in the notebooks' saved outputs:
\* "Total params: 105,866" (cnn), "Total params: 211,722" (Y-Network);
\* 469 training steps and 79 test steps of 128 rows for MNIST's 60000 / 10000
SummaryAgrees ==
  /\ \A j \in 1..Len(stdout) :
       stdout[j].text = "Total params" =>
         stdout[j].value = IF nb = "cnn" THEN <<105866>> ELSE <<211722>>
  /\ Steps(60000, batch_size) = 469 /\ Steps(10000, batch_size) = 79

====
